---- MODULE Spec2Model ----
(***************************************************************************)
(* Model of the Eagle energy exporter (src/main.py): the EagleParse        *)
(* decoder with its process-wide device registry (_global_config), the     *)
(* gating of publication in get_metric_labels/publish, and the ingest      *)
(* HTTP handler.                                                           *)
(*                                                                         *)
(* Encodings.  An XML text that the code converts with int(.., 16) is a    *)
(* sequence of hexadecimal digit values (the characters after "0x"); the   *)
(* digit value 16 stands for a character that is no hexadecimal digit.     *)
(* An element that find() does not find is NoElem.  Texts that the code    *)
(* only copies or compares (identities, versions) are strings, and the     *)
(* string None stands for Python's None.  A dict is a function whose       *)
(* DOMAIN is the set of keys present.  A float is the exact fraction       *)
(* [num, den] the division is applied to.                                  *)
(***************************************************************************)
EXTENDS Integers, Sequences, FiniteSets, TLC

VARIABLES
    global_config,  \* EagleParse._global_config: device_mac_id -> {labels, state}
    pc,             \* position of the ingest handler of the sequential specification
    out,            \* what the latest ingest call did (payload, bundle, gauge calls, response)
    req,            \* the ingest coroutines of the concurrent specification
    running,        \* the request whose coroutine the event loop is running, 0 when none
    served,         \* history: the payloads answered, in the order of the responses
    creations       \* history: how often the constructor created each device's entry

vars == <<global_config, pc, out, req, running, served, creations>>

None == "None"
NoElem == << -1 >>
EmptyDict == <<>>

\* dict[key] = value
Put(dict, key, value) ==
    [k \in DOMAIN dict \cup {key} |-> IF k = key THEN value ELSE dict[k]]

\* dict.update(other)
Update(dict, other) ==
    [k \in DOMAIN dict \cup DOMAIN other |-> IF k \in DOMAIN other THEN other[k] ELSE dict[k]]

----------------------------------------------------------------------------
(* Conversions *)

\* int(text, 16) raises ValueError unless the text is a non-empty run of hex digits
IsHex(t) ==
    /\ t # NoElem
    /\ Len(t) > 0
    /\ \A i \in 1..Len(t) : t[i] \in 0..15

RECURSIVE HexValue(_)
HexValue(t) ==
    IF t = <<>> THEN 0
    ELSE 16 * HexValue(SubSeq(t, 1, Len(t) - 1)) + t[Len(t)]

\* convert_hex_to_int: value >= 0x80000000 becomes value - 0x100000000.
\* For a text of at most 8 digits value >= 2^31 means 8 digits, the first >= 8;
\* value - 2^32 is computed as (value - 8 * 16^7) - 2^31 to stay within 32 bits.
convert_hex_to_int(t) ==
    IF Len(t) = 8 /\ t[1] >= 8
    THEN (HexValue([t EXCEPT ![1] = t[1] - 8]) - 2147483647) - 1
    ELSE HexValue(t)

unix2000_time == 946684800

utc2000_to_epoch(seconds) == seconds + unix2000_time

\* the error that element.find(name).text followed by a hex conversion raises
FieldError(t) ==
    IF t = NoElem THEN "AttributeError"
    ELSE IF ~IsHex(t) THEN "ValueError"
    ELSE ""

RECURSIVE FirstError(_)
FirstError(ts) ==
    IF ts = <<>> THEN ""
    ELSE IF FieldError(Head(ts)) # "" THEN FieldError(Head(ts))
    ELSE FirstError(Tail(ts))

\* faulty variant: a zero multiplier or divisor is used as it is
OrOne_Keep(n) == n

\* multiplier if multiplier != 0 else 1
OrOne(n) == IF n # 0 THEN n ELSE 1

\* (raw * multiplier) / divisor, as an exact fraction
Scale(raw, multiplier, divisor) ==
    [num |-> raw * OrOne(multiplier), den |-> OrOne(divisor)]

DemandBound == 1000

\* faulty variant: the bound itself is rejected
OutOfRange_Inclusive(v) ==
    IF v.den > 0
    THEN v.num >= DemandBound * v.den \/ v.num <= (0 - DemandBound) * v.den
    ELSE v.num <= DemandBound * v.den \/ v.num >= (0 - DemandBound) * v.den

\* (demand > 1000) or (demand < -1000) for demand = num / den, den # 0
OutOfRange(v) ==
    IF v.den > 0
    THEN v.num > DemandBound * v.den \/ v.num < (0 - DemandBound) * v.den
    ELSE v.num < DemandBound * v.den \/ v.num > (0 - DemandBound) * v.den

\* root.attrib.get("timestamp", '0').rstrip('s'): the attribute is a run of
\* characters, 0..9 a decimal digit, 10 the letter s, 11 any other character
RECURSIVE rstrip_s(_)
rstrip_s(t) ==
    IF t # <<>> /\ t[Len(t)] = 10 THEN rstrip_s(SubSeq(t, 1, Len(t) - 1)) ELSE t

IsDec(t) == Len(t) > 0 /\ \A i \in 1..Len(t) : t[i] \in 0..9

RECURSIVE DecValue(_)
DecValue(t) ==
    IF t = <<>> THEN 0
    ELSE 10 * DecValue(SubSeq(t, 1, Len(t) - 1)) + t[Len(t)]

----------------------------------------------------------------------------
(* EagleParse.  A parser instance is the record                            *)
(*   config    the registry as this call has left it so far                *)
(*   dev       the key of the entry self._labels / self._state alias, or   *)
(*             None when no DeviceMacId was found (self._labels is None    *)
(*             and self._state was never assigned)                         *)
(*   metric    self._metric                                                *)
(*   timestamp self.timestamp                                              *)
(*   raised    the exception that ended the call, "" when none             *)
(*   called    the section parsers entered, in order                       *)
(*   created   whether the constructor created the registry entry          *)

\* os.environ PROMETHEUS_OPT_LABELS: optional labels per device
prom_opt_labels ==
    [d \in {"d1"} |-> [k \in {"site", "model_id"} |-> IF k = "site" THEN "home" ELSE "m0"]]

\* faulty variant: if device_mac_id is not None
Truthy_NotNone(text) == text # None

Truthy(text) == text # None /\ text # ""

NewEntry(device_mac_id, client_host) ==
    LET labels == Put(Put(EmptyDict, "device_mac_id", device_mac_id),
                      "client_host", client_host)
        merged == IF device_mac_id \in DOMAIN prom_opt_labels
                  THEN Update(labels, prom_opt_labels[device_mac_id])
                  ELSE labels
    IN  [labels |-> merged,
         state |-> [device_info_received |-> FALSE, network_info_received |-> FALSE]]

\* faulty variant: the entry is initialized on every payload
NotRegistered_Always(config, device_mac_id) == TRUE

\* if device_mac_id not in self._global_config
NotRegistered(config, device_mac_id) == device_mac_id \notin DOMAIN config

\* faulty variant: the attribute is taken as seconds since 2000
RootTimestamp_Utc2000(p, now) ==
    LET t == IF p.timestamp = NoElem THEN <<0>> ELSE rstrip_s(p.timestamp)
    IN  IF DecValue(t) # 0 THEN utc2000_to_epoch(DecValue(t)) ELSE now

\* int(root.attrib.get("timestamp", '0').rstrip('s')) or int(time.time())
RootTimestamp(p, now) ==
    LET t == IF p.timestamp = NoElem THEN <<0>> ELSE rstrip_s(p.timestamp)
    IN  IF DecValue(t) # 0 THEN DecValue(t) ELSE now

\* faulty variant: self._metric is shared by the instances and still holds a
\* reading of an earlier payload
EagleParseInit_StaleMetric(config, p, client_host, now) ==
    LET blank == [config |-> config, dev |-> None,
                  metric |-> [k \in {"instantaneous_demand"} |->
                                 [demand |-> [num |-> 1, den |-> 1000]]],
                  timestamp |-> 0, raised |-> "", called |-> <<>>, created |-> FALSE]
    IN  IF ~p.wellformed THEN [blank EXCEPT !.raised = "ParseError"]
        ELSE IF p.timestamp # NoElem /\ ~IsDec(rstrip_s(p.timestamp))
        THEN [blank EXCEPT !.raised = "ValueError"]
        ELSE LET s == [blank EXCEPT !.timestamp = RootTimestamp(p, now)]
                 id == p.DeviceMacId
             IN  IF ~Truthy(id) THEN s
                 ELSE IF NotRegistered(config, id)
                 THEN [s EXCEPT !.config = Put(config, id, NewEntry(id, client_host)),
                                !.dev = id, !.created = TRUE]
                 ELSE [s EXCEPT !.dev = id]

\* faulty variant: a registered device's entry gets the client address of the
\* payload and the label overrides again
EagleParseInit_Refresh(config, p, client_host, now) ==
    LET blank == [config |-> config, dev |-> None, metric |-> EmptyDict, timestamp |-> 0,
                  raised |-> "", called |-> <<>>, created |-> FALSE]
    IN  IF ~p.wellformed THEN [blank EXCEPT !.raised = "ParseError"]
        ELSE IF p.timestamp # NoElem /\ ~IsDec(rstrip_s(p.timestamp))
        THEN [blank EXCEPT !.raised = "ValueError"]
        ELSE LET s == [blank EXCEPT !.timestamp = RootTimestamp(p, now)]
                 id == p.DeviceMacId
             IN  IF ~Truthy(id) THEN s
                 ELSE IF NotRegistered(config, id)
                 THEN [s EXCEPT !.config = Put(config, id, NewEntry(id, client_host)),
                                !.dev = id, !.created = TRUE]
                 ELSE [s EXCEPT !.config[id].labels =
                                    Update(@, NewEntry(id, client_host).labels),
                                !.dev = id]

EagleParseInit(config, p, client_host, now) ==
    LET blank == [config |-> config, dev |-> None, metric |-> EmptyDict, timestamp |-> 0,
                  raised |-> "", called |-> <<>>, created |-> FALSE]
    IN  IF ~p.wellformed THEN [blank EXCEPT !.raised = "ParseError"]
        ELSE IF p.timestamp # NoElem /\ ~IsDec(rstrip_s(p.timestamp))
        THEN [blank EXCEPT !.raised = "ValueError"]
        ELSE LET s == [blank EXCEPT !.timestamp = RootTimestamp(p, now)]
                 id == p.DeviceMacId
             IN  IF ~Truthy(id) THEN s
                 ELSE IF NotRegistered(config, id)
                 THEN [s EXCEPT !.config = Put(config, id, NewEntry(id, client_host)),
                                !.dev = id, !.created = TRUE]
                 ELSE [s EXCEPT !.dev = id]

Enter(s, name) == [s EXCEPT !.called = Append(@, name)]

parse_instantaneous_demand(s0, p) ==
    LET s == Enter(s0, "InstantaneousDemand")
        e == p.InstantaneousDemand
        err == FirstError(<<e.Demand, e.Multiplier, e.Divisor, e.TimeStamp>>)
    IN  IF ~e.present THEN s
        ELSE IF err # "" THEN [s EXCEPT !.raised = err]
        ELSE LET demand == Scale(convert_hex_to_int(e.Demand),
                                 convert_hex_to_int(e.Multiplier),
                                 convert_hex_to_int(e.Divisor))
                 t == [s EXCEPT !.timestamp = utc2000_to_epoch(HexValue(e.TimeStamp))]
             IN  IF OutOfRange(demand) THEN [t EXCEPT !.raised = "Exception"]
                 ELSE [t EXCEPT !.metric =
                          Put(@, "instantaneous_demand", [demand |-> demand])]

\* an Element is false when it has no child elements
ElementTruth(e) == e.present /\ e.children

\* root.find("CurrentSummationDelivered") or root.find("CurrentSummation")
FindSummation(p) ==
    IF ElementTruth(p.CurrentSummationDelivered) THEN p.CurrentSummationDelivered
    ELSE p.CurrentSummation

parse_current_summation(s0, p) ==
    LET s == Enter(s0, "CurrentSummation")
        e == FindSummation(p)
        err == FirstError(<<e.SummationDelivered, e.SummationReceived,
                            e.Multiplier, e.Divisor, e.TimeStamp>>)
    IN  IF ~e.present THEN s
        ELSE IF err # "" THEN [s EXCEPT !.raised = err]
        ELSE LET m == convert_hex_to_int(e.Multiplier)
                 d == convert_hex_to_int(e.Divisor)
                 t == [s EXCEPT !.timestamp = utc2000_to_epoch(HexValue(e.TimeStamp))]
             IN  [t EXCEPT !.metric =
                     Put(@, "current_summation",
                         [summation_delivered |->
                              Scale(convert_hex_to_int(e.SummationDelivered), m, d),
                          summation_received |->
                              Scale(convert_hex_to_int(e.SummationReceived), m, d)])]

\* the labels _parse_device_info assigns: findtext(.., default=None) of each field
DeviceInfoLabels(e) ==
    Put(Put(Put(Put(EmptyDict, "fw_version", e.FWVersion), "hw_version", e.HWVersion),
            "manufacturer", e.Manufacturer), "model_id", e.ModelId)

\* faulty variant: the devices share one state dict
parse_device_info_Shared(s0, p) ==
    LET s == Enter(s0, "DeviceInfo")
        e == p.DeviceInfo
    IN  IF ~e.present THEN s
        ELSE IF s.dev = None THEN [s EXCEPT !.raised = "AttributeError"]
        ELSE [s EXCEPT !.config =
                 [d \in DOMAIN s.config |->
                     IF d = s.dev
                     THEN [s.config[d] EXCEPT !.state.device_info_received = TRUE,
                                              !.labels = Update(@, DeviceInfoLabels(e))]
                     ELSE [s.config[d] EXCEPT !.state.device_info_received = TRUE]]]

\* faulty variant: the label dict is replaced instead of updated
parse_device_info_Replace(s0, p) ==
    LET s == [s0 EXCEPT !.called = Append(@, "DeviceInfo")]
        e == p.DeviceInfo
    IN  IF ~e.present THEN s
        ELSE IF s.dev = None THEN [s EXCEPT !.raised = "AttributeError"]
        ELSE [s EXCEPT !.config[s.dev].state.device_info_received = TRUE,
                       !.config[s.dev].labels = DeviceInfoLabels(e)]

parse_device_info(s0, p) ==
    LET s == Enter(s0, "DeviceInfo")
        e == p.DeviceInfo
    IN  IF ~e.present THEN s
        ELSE IF s.dev = None THEN [s EXCEPT !.raised = "AttributeError"]
        ELSE [s EXCEPT !.config[s.dev].state.device_info_received = TRUE,
                       !.config[s.dev].labels = Update(@, DeviceInfoLabels(e))]

\* _parse_network_info: the flag is set before LinkStrength is converted
parse_network_info(s0, p) ==
    LET s == Enter(s0, "NetworkInfo")
        e == p.NetworkInfo
    IN  IF ~e.present THEN s
        ELSE IF s.dev = None THEN [s EXCEPT !.raised = "AttributeError"]
        ELSE LET t == [s EXCEPT !.config[s.dev].state.network_info_received = TRUE]
             IN  IF e.LinkStrength = NoElem THEN t
                 ELSE IF ~IsHex(e.LinkStrength) THEN [t EXCEPT !.raised = "ValueError"]
                 ELSE [t EXCEPT !.metric =
                          Put(@, "network_info",
                              [link_strength |-> HexValue(e.LinkStrength)])]

\* a statement of parse() runs only if no earlier one raised
Then(s, next) == IF s.raised # "" THEN s ELSE next

\* faulty variant: the summation is parsed before the demand
parse_DemandLast(s, p) ==
    CHOOSE s4 \in
        {Then(s3, parse_network_info(s3, p)) :
            s3 \in {Then(s2, parse_device_info(s2, p)) :
                s2 \in {Then(s1, parse_instantaneous_demand(s1, p)) :
                    s1 \in {Then(s0, parse_current_summation(s0, p)) :
                        s0 \in {s}}}}} : TRUE

\* parse: the four section parsers in order (s1, s2, s3 are the parser after
\* the first, second and third, each bound to its value once)
parse(s, p) ==
    CHOOSE s4 \in
        {Then(s3, parse_network_info(s3, p)) :
            s3 \in {Then(s2, parse_device_info(s2, p)) :
                s2 \in {Then(s1, parse_current_summation(s1, p)) :
                    s1 \in {Then(s0, parse_instantaneous_demand(s0, p)) :
                        s0 \in {s}}}}} : TRUE

ZeroMeter == "0x0000000000000000"

\* faulty variant: the gate forgets network_info_received
Withheld_NoNetworkCheck(s) ==
    \/ s.dev = None
    \/ ~s.config[s.dev].state.device_info_received

\* the gate of get_metric_labels: TRUE when the bundle is withheld
Withheld(s) ==
    \/ s.dev = None
    \/ ~s.config[s.dev].state.device_info_received
    \/ ~s.config[s.dev].state.network_info_received

EmptyBundle == [empty |-> TRUE, metric |-> EmptyDict, labels |-> EmptyDict, timestamp |-> 0]

\* faulty variant: the all-zero meter identity is not filtered out
get_metric_labels_KeepSentinel(s, p) ==
    IF Withheld(s) THEN [self |-> s, ml |-> EmptyBundle]
    ELSE LET t == IF Truthy(p.MeterMacId)
                  THEN [s EXCEPT !.config[s.dev].labels =
                                    Put(@, "meter_mac_id", p.MeterMacId)]
                  ELSE s
         IN  [self |-> t,
              ml |-> [empty |-> FALSE, metric |-> t.metric,
                      labels |-> t.config[t.dev].labels, timestamp |-> t.timestamp]]

\* get_metric_labels: the parser after the call (the meter label lands in the
\* registry entry) and the bundle returned
get_metric_labels(s, p) ==
    IF Withheld(s) THEN [self |-> s, ml |-> EmptyBundle]
    ELSE LET t == IF Truthy(p.MeterMacId) /\ p.MeterMacId # ZeroMeter
                  THEN [s EXCEPT !.config[s.dev].labels =
                                    Put(@, "meter_mac_id", p.MeterMacId)]
                  ELSE s
         IN  [self |-> t,
              ml |-> [empty |-> FALSE, metric |-> t.metric,
                      labels |-> t.config[t.dev].labels, timestamp |-> t.timestamp]]

\* faulty variant: the instantaneous_demand gauge is never set
GaugeCalls_SummationOnly(ml) ==
    IF "current_summation" \in DOMAIN ml.metric
    THEN << [gauge |-> "summation_delivered",
             value |-> ml.metric["current_summation"].summation_delivered,
             labels |-> ml.labels],
            [gauge |-> "summation_received",
             value |-> ml.metric["current_summation"].summation_received,
             labels |-> ml.labels] >>
    ELSE <<>>

\* the gauge set() calls of publish for a bundle
GaugeCalls(ml) ==
    LET metric_data == ml.metric
        summation ==
            IF "current_summation" \in DOMAIN metric_data
            THEN << [gauge |-> "summation_delivered",
                     value |-> metric_data["current_summation"].summation_delivered,
                     labels |-> ml.labels],
                    [gauge |-> "summation_received",
                     value |-> metric_data["current_summation"].summation_received,
                     labels |-> ml.labels] >>
            ELSE <<>>
        demand ==
            IF "instantaneous_demand" \in DOMAIN metric_data
            THEN << [gauge |-> "instantaneous_demand",
                     value |-> metric_data["instantaneous_demand"].demand,
                     labels |-> ml.labels] >>
            ELSE <<>>
    IN  summation \o demand

\* faulty variant: a failed parse() is ignored and what was decoded is published
publish_DespiteError(s, p) ==
    LET g == get_metric_labels(parse(s, p), p)
    IN  [self |-> g.self, ml |-> g.ml, calls |-> GaugeCalls(g.ml)]

\* publish: parse, gate, set the gauges; nothing after a raise
publish(s, p) ==
    LET parsed == parse(s, p)
        g == get_metric_labels(parsed, p)
    IN  IF parsed.raised # ""
        THEN [self |-> parsed, ml |-> EmptyBundle, calls |-> <<>>]
        ELSE [self |-> g.self, ml |-> g.ml, calls |-> GaugeCalls(g.ml)]

\* faulty variant: no finally clause, the exception becomes a 500
ResponseStatus_Propagate(raised) == IF raised # "" THEN 500 ELSE 200

\* the status of the Response that ingest returns from its finally clause
ResponseStatus(raised) == 200

\* ingest from the moment the body is read: construct, publish, answer.
\* before is the registry as the constructor left it; metric and timestamp are
\* self._metric and self.timestamp as the call left them.
ingest(config, p, client_host, now) ==
    LET made == EagleParseInit(config, p, client_host, now)
        done == IF made.raised # ""
                THEN [self |-> made, ml |-> EmptyBundle, calls |-> <<>>]
                ELSE publish(made, p)
    IN  [config |-> done.self.config,
         out |-> [p |-> p, dev |-> made.dev, created |-> made.created,
                  before |-> made.config, raised |-> done.self.raised,
                  called |-> done.self.called, metric |-> done.self.metric,
                  timestamp |-> done.self.timestamp, ml |-> done.ml, calls |-> done.calls,
                  status |-> ResponseStatus(done.self.raised)]]

----------------------------------------------------------------------------
(* Inputs *)

Hex8(n) == <<0, 0, 0, 0, (n \div 4096) % 16, (n \div 256) % 16, (n \div 16) % 16, n % 16>>

NoDemand == [present |-> FALSE, Demand |-> NoElem, Multiplier |-> NoElem,
             Divisor |-> NoElem, TimeStamp |-> NoElem]

DemandOf(d, m, v, t) == [present |-> TRUE, Demand |-> d, Multiplier |-> m,
                         Divisor |-> v, TimeStamp |-> t]

\* 0.001 kWh
DemandOk == DemandOf(Hex8(1), Hex8(1), Hex8(1000), Hex8(256))

\* 2000 kWh, out of range
DemandTooHigh == DemandOf(Hex8(2000), Hex8(1), Hex8(1), Hex8(256))

DemandNoDivisor == DemandOf(Hex8(1), Hex8(1), NoElem, Hex8(256))

Demands == {NoDemand, DemandOk, DemandTooHigh, DemandNoDivisor}

NoSummation == [present |-> FALSE, children |-> FALSE, SummationDelivered |-> NoElem,
                SummationReceived |-> NoElem, Multiplier |-> NoElem,
                Divisor |-> NoElem, TimeStamp |-> NoElem]

SummationOf(d, r, m, v, t) ==
    [present |-> TRUE, children |-> TRUE, SummationDelivered |-> d,
     SummationReceived |-> r, Multiplier |-> m, Divisor |-> v, TimeStamp |-> t]

SummationOk == SummationOf(Hex8(5000), Hex8(0), Hex8(1), Hex8(1000), Hex8(512))

SummationNoReceived == SummationOf(Hex8(5000), NoElem, Hex8(1), Hex8(1000), Hex8(512))

Summations == {NoSummation, SummationOk, SummationNoReceived}

NoDeviceInfo == [present |-> FALSE, FWVersion |-> None, HWVersion |-> None,
                 Manufacturer |-> None, ModelId |-> None]

DeviceInfoFw == [NoDeviceInfo EXCEPT !.present = TRUE, !.FWVersion = "fw1"]

DeviceInfoHw == [NoDeviceInfo EXCEPT !.present = TRUE, !.HWVersion = "hw1"]

DeviceInfos == {NoDeviceInfo, DeviceInfoFw, DeviceInfoHw}

NoNetworkInfo == [present |-> FALSE, LinkStrength |-> NoElem]

NetworkInfoNoLink == [present |-> TRUE, LinkStrength |-> NoElem]

NetworkInfoOk == [present |-> TRUE, LinkStrength |-> <<6, 4>>]

\* LinkStrength is not a hexadecimal number
NetworkInfoBadLink == [present |-> TRUE, LinkStrength |-> <<16>>]

NetworkInfos == {NoNetworkInfo, NetworkInfoNoLink, NetworkInfoOk, NetworkInfoBadLink}

Devices == {"d1", "d2"}

DeviceMacIds == {None, ""} \cup Devices

MeterMacIds == {None, ZeroMeter, "0xm1"}

Hosts == {"10.0.0.1", "10.0.0.2"}

Clock == {1700000000}

MalformedXml ==
    [wellformed |-> FALSE, timestamp |-> NoElem, DeviceMacId |-> None, MeterMacId |-> None,
     InstantaneousDemand |-> NoDemand, CurrentSummationDelivered |-> NoSummation,
     CurrentSummation |-> NoSummation, DeviceInfo |-> NoDeviceInfo,
     NetworkInfo |-> NoNetworkInfo]

\* a payload of device d1 that carries no section
Bare ==
    [MalformedXml EXCEPT !.wellformed = TRUE, !.DeviceMacId = "d1"]

\* the payloads of the concurrent specification
ConcPayloads ==
    { MalformedXml,
      [Bare EXCEPT !.DeviceInfo = DeviceInfoFw],
      [Bare EXCEPT !.NetworkInfo = NetworkInfoOk, !.InstantaneousDemand = DemandOk,
                   !.MeterMacId = "0xm1"],
      [Bare EXCEPT !.InstantaneousDemand = DemandTooHigh, !.DeviceInfo = DeviceInfoHw],
      [Bare EXCEPT !.DeviceInfo = DeviceInfoHw, !.NetworkInfo = NetworkInfoBadLink] }

NumRequests == 2

Requests == 1..NumRequests

NoSelf == [config |-> EmptyDict, dev |-> None, metric |-> EmptyDict, timestamp |-> 0,
           raised |-> "", called |-> <<>>, created |-> FALSE]

Payloads ==
    {MalformedXml} \cup
    [wellformed : {TRUE}, timestamp : {NoElem}, DeviceMacId : DeviceMacIds,
     MeterMacId : MeterMacIds, InstantaneousDemand : Demands,
     CurrentSummationDelivered : {NoSummation}, CurrentSummation : Summations,
     DeviceInfo : DeviceInfos, NetworkInfo : NetworkInfos]

----------------------------------------------------------------------------
(* The sequential specification: one ingest call at a time *)

NoOut == [p |-> MalformedXml, dev |-> None, created |-> FALSE, before |-> EmptyDict,
          raised |-> "", called |-> <<>>, metric |-> EmptyDict, timestamp |-> 0,
          ml |-> EmptyBundle, calls |-> <<>>, status |-> 0]

NoRequest == [at |-> "waiting", p |-> MalformedXml, client_host |-> "", self |-> NoSelf,
              calls |-> <<>>, status |-> 0, overlapped |-> FALSE]

Init ==
    /\ global_config = EmptyDict
    /\ pc = "idle"
    /\ out = NoOut
    /\ req = [r \in Requests |-> NoRequest]
    /\ running = 0
    /\ served = <<>>
    /\ creations = [d \in Devices |-> 0]

concurrent == <<req, running, served, creations>>

\* POST /: the handler runs from the body to its Response
Ingest ==
    /\ pc = "idle"
    /\ \E p \in Payloads, client_host \in Hosts, now \in Clock :
       \E r \in {ingest(global_config, p, client_host, now)} :
             /\ global_config' = r.config
             /\ out' = r.out
    /\ pc' = "responded"
    /\ UNCHANGED concurrent

\* the response is sent; the server waits for the next request
Deliver ==
    /\ pc = "responded"
    /\ pc' = "idle"
    /\ out' = NoOut
    /\ UNCHANGED <<global_config, concurrent>>

Next == Ingest \/ Deliver

Spec == Init /\ [][Next]_vars

----------------------------------------------------------------------------
(* The readings specification: one device, one ingest call at a time, with *)
(* the payloads that exercise the decoding of the readings, the document   *)
(* timestamp, the two summation section names and the meter identity.      *)

\* the 8-digit two's complement text of -n, 1 <= n <= 65535
Hex8Neg(n) ==
    <<15, 15, 15, 15, ((65536 - n) \div 4096) % 16, ((65536 - n) \div 256) % 16,
      ((65536 - n) \div 16) % 16, (65536 - n) % 16>>

DemandRaws == {Hex8(5), Hex8(1000), Hex8(1001), Hex8(2001), Hex8Neg(1000), Hex8Neg(1001)}

Multipliers == {Hex8(0), Hex8(1), Hex8(2)}

Divisors == {Hex8(0), Hex8(1), Hex8(2), Hex8Neg(1)}

\* a demand whose TimeStamp is later than the TimeStamp of the summations
DemandLate == DemandOf(Hex8(1), Hex8(1), Hex8(1000), Hex8(768))

ReadingDemands ==
    {NoDemand, DemandNoDivisor, DemandLate} \cup
    {DemandOf(d, m, v, Hex8(256)) : d \in DemandRaws, m \in Multipliers, v \in Divisors}

ReadingSummations ==
    {NoSummation} \cup
    {SummationOf(d, Hex8(40), m, v, Hex8(512)) :
        d \in {Hex8(5000), Hex8Neg(3000)},
        m \in {Hex8(0), Hex8(1), Hex8(3)},
        v \in {Hex8(0), Hex8(1), Hex8(1000)}}

\* <CurrentSummationDelivered/>: the element is there and has no child
SummationEmpty == [NoSummation EXCEPT !.present = TRUE]

DeliveredOk == SummationOf(Hex8(7000), Hex8(10), Hex8(1), Hex8(1000), Hex8(1024))

DeliveredNoStamp == SummationOf(Hex8(7000), Hex8(10), Hex8(1), Hex8(1000), NoElem)

DeliveredSummations == {NoSummation, SummationEmpty, DeliveredOk, DeliveredNoStamp}

\* the timestamp attribute of the root: absent, "0s", "1000000000s", "2000", "1x"
RootTimestamps ==
    {NoElem, <<0, 10>>, <<1, 0, 0, 0, 0, 0, 0, 0, 0, 0, 10>>, <<2, 0, 0, 0>>, <<1, 11>>}

ReadingMeterMacIds == MeterMacIds \cup {"", "0xm2"}

Reading(timestamp, meter, demand, delivered, summation, device_info, network_info) ==
    [wellformed |-> TRUE, timestamp |-> timestamp, DeviceMacId |-> "d1",
     MeterMacId |-> meter, InstantaneousDemand |-> demand,
     CurrentSummationDelivered |-> delivered, CurrentSummation |-> summation,
     DeviceInfo |-> device_info, NetworkInfo |-> network_info]

ReadingPayloads ==
    {Reading(NoElem, None, d, NoSummation, s, di, ni) :
        d \in ReadingDemands, s \in {NoSummation, SummationOk},
        di \in {NoDeviceInfo, DeviceInfoFw}, ni \in {NoNetworkInfo, NetworkInfoOk}}
    \cup
    {Reading(NoElem, None, d, sd, s, di, ni) :
        d \in {NoDemand, DemandOk}, sd \in DeliveredSummations, s \in ReadingSummations,
        di \in {NoDeviceInfo, DeviceInfoFw}, ni \in {NoNetworkInfo, NetworkInfoOk}}
    \cup
    {Reading(t, None, d, sd, s, di, ni) :
        t \in RootTimestamps, d \in {NoDemand, DemandOk, DemandLate},
        sd \in {NoSummation, SummationEmpty, DeliveredOk}, s \in {NoSummation, SummationOk},
        di \in {NoDeviceInfo, DeviceInfoFw}, ni \in {NoNetworkInfo, NetworkInfoOk}}
    \cup
    {Reading(NoElem, m, d, NoSummation, NoSummation, di, ni) :
        m \in ReadingMeterMacIds, d \in {NoDemand, DemandOk},
        di \in {NoDeviceInfo, DeviceInfoFw}, ni \in {NoNetworkInfo, NetworkInfoOk}}

\* POST / with a payload of the readings specification
IngestReading ==
    /\ pc = "idle"
    /\ \E p \in ReadingPayloads, client_host \in Hosts, now \in Clock :
       \E r \in {ingest(global_config, p, client_host, now)} :
             /\ global_config' = r.config
             /\ out' = r.out
    /\ pc' = "responded"
    /\ UNCHANGED concurrent

ReadingNext == IngestReading \/ Deliver

ReadingSpec == Init /\ [][ReadingNext]_vars

----------------------------------------------------------------------------
(* The concurrent specification: the ingest coroutines on one event loop.  *)
(* A coroutine is at                                                       *)
(*   waiting    not yet started                                            *)
(*   body       suspended in  await request.body()                         *)
(*   construct  the body is read, EagleParse(raw_xml, client_host) is next *)
(*   parse      in publish(), before  await self.parse()                   *)
(*   gate       parse() returned, get_metric_labels() is next              *)
(*   respond    the try block is left, the finally clause is next          *)
(*   done       the Response is returned                                   *)
(* The parser instance holds references into the registry, not copies, so  *)
(* the record kept for it has an empty config and each step binds it to    *)
(* the registry of that moment.                                            *)

Bind(self, config) == [self EXCEPT !.config = config]

Unbind(s) == [s EXCEPT !.config = EmptyDict]

\* faulty variant: every await of the handler hands control back to the loop
Yields_EveryAwait(at) == at \in {"body", "done", "parse", "gate"}

\* where a coroutine hands control back to the event loop: awaiting the
\* request body suspends, awaiting publish() and parse() does not (neither
\* awaits anything that is not ready), and returning ends the coroutine
Yields(at) == at \in {"body", "done"}

\* the loop runs one coroutine at a time, up to the point where it yields
CanRun(r) == running = r \/ running = 0

Move(r, at) ==
    running' = IF Yields(at) THEN 0 ELSE r

\* a request arrives: its handler starts and suspends awaiting the body
Arrive(r) ==
    /\ req[r].at = "waiting"
    /\ CanRun(r)
    /\ req' = [req EXCEPT ![r].at = "body"]
    /\ Move(r, "body")
    /\ UNCHANGED <<global_config, pc, out, served, creations>>

\* raw_xml = await request.body(); client_host = request.client.host
ReadBody(r) ==
    /\ req[r].at = "body"
    /\ CanRun(r)
    /\ \E p \in ConcPayloads, client_host \in Hosts :
         req' = [req EXCEPT ![r].at = "construct", ![r].p = p,
                            ![r].client_host = client_host,
                            ![r].overlapped =
                                \E q \in Requests \ {r} : req[q].at = "body"]
    /\ Move(r, "construct")
    /\ UNCHANGED <<global_config, pc, out, served, creations>>

\* eagle_parser = EagleParse(raw_xml, client_host)
Construct(r) ==
    /\ req[r].at = "construct"
    /\ CanRun(r)
    /\ \E now \in Clock :
       \E s \in {EagleParseInit(global_config, req[r].p, req[r].client_host, now)} :
         LET at == IF s.raised # "" THEN "respond" ELSE "parse"
         IN  /\ global_config' = s.config
             /\ req' = [req EXCEPT ![r].at = at, ![r].self = Unbind(s)]
             /\ creations' = IF s.created
                             THEN [creations EXCEPT ![s.dev] = @ + 1]
                             ELSE creations
             /\ Move(r, at)
    /\ UNCHANGED <<pc, out, served>>

\* await self.parse()
Parse(r) ==
    /\ req[r].at = "parse"
    /\ CanRun(r)
    /\ \E s \in {parse(Bind(req[r].self, global_config), req[r].p)} :
       LET at == IF s.raised # "" THEN "respond" ELSE "gate"
       IN  /\ global_config' = s.config
           /\ req' = [req EXCEPT ![r].at = at, ![r].self = Unbind(s)]
           /\ Move(r, at)
    /\ UNCHANGED <<pc, out, served, creations>>

\* ml = self.get_metric_labels() and the gauge set() calls
Gate(r) ==
    /\ req[r].at = "gate"
    /\ CanRun(r)
    /\ \E g \in {get_metric_labels(Bind(req[r].self, global_config), req[r].p)} :
           /\ global_config' = g.self.config
           /\ req' = [req EXCEPT ![r].at = "respond", ![r].self = Unbind(g.self),
                                  ![r].calls = GaugeCalls(g.ml)]
           /\ Move(r, "respond")
    /\ UNCHANGED <<pc, out, served, creations>>

\* except Exception: print(..); finally: return Response(status_code=200)
Respond(r) ==
    /\ req[r].at = "respond"
    /\ CanRun(r)
    /\ req' = [req EXCEPT ![r].at = "done",
                          ![r].status = ResponseStatus(req[r].self.raised)]
    /\ served' = Append(served, [r |-> r, p |-> req[r].p,
                                 client_host |-> req[r].client_host])
    /\ Move(r, "done")
    /\ UNCHANGED <<global_config, pc, out, creations>>

\* the steps the event loop takes for a coroutine that has its body
Handle(r) == Construct(r) \/ Parse(r) \/ Gate(r) \/ Respond(r)

ConcNext == \E r \in Requests : Arrive(r) \/ ReadBody(r) \/ Handle(r)

ConcSpec == Init /\ [][ConcNext]_vars

\* the event loop runs every coroutine that is ready to run
LiveSpec == ConcSpec /\ \A r \in Requests : WF_vars(Handle(r))

----------------------------------------------------------------------------
(* Vocabulary of the claims about one ingest call (pc = "responded") *)

Responded == pc = "responded"

\* the call resolved a device identity
Attributed == out.dev # None

\* the payload has no DeviceMacId element, or an empty one
NoIdentity(p) == p.DeviceMacId \in {None, ""}

BothFlags(entry) ==
    entry.state.device_info_received /\ entry.state.network_info_received

\* a demand section, or a summation section the decoder selects, is in the payload
HasReading(p) == p.InstantaneousDemand.present \/ FindSummation(p).present

OnlyDemand(p) ==
    /\ p.InstantaneousDemand.present
    /\ ~p.CurrentSummationDelivered.present /\ ~p.CurrentSummation.present
    /\ ~p.DeviceInfo.present /\ ~p.NetworkInfo.present

\* the call set the flag that was still missing for its device
Completes ==
    /\ Responded /\ Attributed
    /\ ~BothFlags(out.before[out.dev])
    /\ BothFlags(global_config[out.dev])

SectionOrder == <<"InstantaneousDemand", "CurrentSummation", "DeviceInfo", "NetworkInfo">>

----------------------------------------------------------------------------
\* C1: a non-empty bundle is returned, and a gauge is set, only for a payload
\* whose device identity was resolved and whose registry entry has both
\* device_info_received and network_info_received true; a payload carrying only
\* an InstantaneousDemand section for a device never seen before yields the
\* empty bundle and sets no gauge.
C1_GatingSafety ==
    Responded =>
        /\ (~out.ml.empty \/ out.calls # <<>>) =>
              /\ ~NoIdentity(out.p)
              /\ out.dev = out.p.DeviceMacId
              /\ out.dev \in DOMAIN global_config
              /\ BothFlags(global_config[out.dev])
        /\ (OnlyDemand(out.p) /\ out.created) =>
              (out.ml.empty /\ out.calls = <<>>)

\* a gated device publishes a demand reading
C1_Witness ==
    /\ Responded /\ Attributed
    /\ BothFlags(global_config[out.dev])
    /\ Len(out.calls) = 1
    /\ out.calls[1].gauge = "instantaneous_demand"

\* C2 as stated: on the payload that sets the second missing flag the bundle is
\* non-empty if the payload carries a summation or demand section and empty
\* otherwise.
C2_Original ==
    Completes => (~out.ml.empty <=> HasReading(out.p))

\* C2 amended: each flag of a device is true after a call that ended without
\* error exactly when it was true before or the payload carries the section
\* (DeviceInfo and NetworkInfo in either order, in one payload or two); on the
\* payload that sets the second missing flag, a call that ended without error
\* returns a non-empty bundle whatever else the payload carries, and sets
\* gauges exactly when the payload carries a decoded summation or demand
\* section; a call that raised returns no bundle and sets no gauge.
C2_Publishable ==
    /\ (Responded /\ Attributed /\ out.raised = "") =>
          LET b == out.before[out.dev].state
              a == global_config[out.dev].state
          IN  /\ a.device_info_received =
                    (b.device_info_received \/ out.p.DeviceInfo.present)
              /\ a.network_info_received =
                    (b.network_info_received \/ out.p.NetworkInfo.present)
              /\ ~out.ml.empty <=> BothFlags(global_config[out.dev])
    /\ Completes =>
          IF out.raised = ""
          THEN ~out.ml.empty /\ (out.calls # <<>> <=> HasReading(out.p))
          ELSE out.ml.empty /\ out.calls = <<>>

\* NetworkInfo arrives after an earlier DeviceInfo payload, with a demand reading
C2_Witness ==
    /\ Completes
    /\ out.before[out.dev].state.device_info_received
    /\ ~out.p.DeviceInfo.present
    /\ out.p.InstantaneousDemand.present
    /\ out.calls # <<>>

\* C3: after a call that raised, the labels and the flags of the device's
\* entry are what they were before the payload's sections were processed.
C3_ErrorAtomicity ==
    (Responded /\ Attributed /\ out.raised # "") =>
        global_config[out.dev] = out.before[out.dev]

\* C4: when a section raises, the sections after it are not entered, what they
\* would have written to the registry is not written, and no gauge is set, not
\* even for a section decoded before the failure.
C4_AllOrNothing ==
    (Responded /\ out.raised # "") =>
        /\ out.calls = <<>>
        /\ out.ml.empty
        /\ out.called = SubSeq(SectionOrder, 1, Len(out.called))
        /\ (out.p.wellformed => Len(out.called) >= 1)
        /\ (Len(out.called) <= 2 => global_config = out.before)

\* a gated device: valid InstantaneousDemand, then a summation missing a sub-field
C4_Witness ==
    /\ Responded /\ Attributed
    /\ BothFlags(out.before[out.dev])
    /\ out.raised = "AttributeError"
    /\ out.called = <<"InstantaneousDemand", "CurrentSummation">>
    /\ FieldError(out.p.InstantaneousDemand.Divisor) = ""
    /\ out.p.DeviceInfo.present

\* every present section of the payload is one its parser accepts
SectionsValid(p) ==
    /\ p.wellformed
    /\ LET e == p.InstantaneousDemand
       IN  e.present =>
             /\ FirstError(<<e.Demand, e.Multiplier, e.Divisor, e.TimeStamp>>) = ""
             /\ ~OutOfRange(Scale(convert_hex_to_int(e.Demand),
                                  convert_hex_to_int(e.Multiplier),
                                  convert_hex_to_int(e.Divisor)))
    /\ LET e == FindSummation(p)
       IN  e.present =>
             FirstError(<<e.SummationDelivered, e.SummationReceived,
                          e.Multiplier, e.Divisor, e.TimeStamp>>) = ""
    /\ LET e == p.NetworkInfo
       IN  e.present => (e.LinkStrength = NoElem \/ IsHex(e.LinkStrength))

\* the step is an ingest call
IngestStep == pc = "idle" /\ pc' = "responded"

\* C7: a payload without a DeviceMacId, or with an empty one, leaves the
\* registry as it was (no entry created, no label or flag changed) and sets no
\* gauge, whatever sections it carries.
C7_NoIdentityNoRegistry ==
    [][(IngestStep /\ NoIdentity(out'.p)) =>
          (global_config' = global_config /\ out'.calls = <<>> /\ out'.dev = None)]_vars

\* an empty DeviceMacId with DeviceInfo and a demand, while a device is registered
C7_Witness ==
    /\ Responded
    /\ out.p.DeviceMacId = ""
    /\ out.p.DeviceInfo.present /\ out.p.InstantaneousDemand.present
    /\ DOMAIN global_config # {}

\* C8: a well-formed payload without DeviceMacId whose sections are all valid
\* is processed without raising and yields the empty bundle.
C8_NoIdentityNoError ==
    (Responded /\ NoIdentity(out.p) /\ SectionsValid(out.p)) =>
        (out.raised = "" /\ out.ml.empty)

FlagNames == {"device_info_received", "network_info_received"}

SectionOfFlag(p, f) ==
    IF f = "device_info_received" THEN p.DeviceInfo ELSE p.NetworkInfo

FlagSet(config, d, f) == d \in DOMAIN config /\ config[d].state[f]

\* C9: a flag is false when the constructor creates the entry, becomes true
\* only in a call for that device whose payload carries the section, and once
\* true is true in every later state.
C9_FlagMonotonic ==
    [][\A d \in DeviceMacIds, f \in FlagNames :
          /\ (IngestStep /\ out'.created /\ out'.dev = d) => ~out'.before[d].state[f]
          /\ (~FlagSet(global_config, d, f) /\ FlagSet(global_config', d, f)) =>
                /\ IngestStep
                /\ out'.p.DeviceMacId = d
                /\ SectionOfFlag(out'.p, f).present
          /\ FlagSet(global_config, d, f) => FlagSet(global_config', d, f)]_vars

\* a device whose flags are set gets a payload that carries neither section
C9_Witness ==
    /\ Responded /\ Attributed /\ ~out.created
    /\ ~out.p.DeviceInfo.present /\ ~out.p.NetworkInfo.present
    /\ BothFlags(out.before[out.dev])
    /\ BothFlags(global_config[out.dev])

LabelKeys(config, d) == DOMAIN config[d].labels

\* C10: no call removes an entry or a label key of an entry, and every entry
\* has the keys device_mac_id and client_host.
C10_LabelKeysKept ==
    /\ [](\A d \in DOMAIN global_config :
             {"device_mac_id", "client_host"} \subseteq LabelKeys(global_config, d))
    /\ [][\A d \in DOMAIN global_config :
             /\ d \in DOMAIN global_config'
             /\ LabelKeys(global_config, d) \subseteq LabelKeys(global_config', d)]_vars

\* a second DeviceInfo overwrites the value of a label set by an earlier one
C10_Witness ==
    /\ Responded /\ Attributed /\ ~out.created
    /\ out.p.DeviceInfo.present
    /\ "fw_version" \in LabelKeys(out.before, out.dev)
    /\ out.before[out.dev].labels["fw_version"] # global_config[out.dev].labels["fw_version"]
    /\ "meter_mac_id" \in LabelKeys(global_config, out.dev)

\* C5: whatever the constructor, the parsers, the gate or the gauges do
\* (malformed XML, malformed section, demand out of range), every response is
\* a 200, and no handler stays between reading its body and its response:
\* again and again every started handler is suspended awaiting its body or
\* has returned, so the requests after a failed one are answered too.
C5_AlwaysOk ==
    /\ [](\A r \in Requests : req[r].at = "done" => req[r].status = 200)
    /\ []<>(\A r \in Requests : req[r].at \in {"waiting", "body", "done"})

\* a request is answered 200 after a request that raised was answered 200
C5_Witness ==
    /\ Len(served) = 2
    /\ req[served[1].r].self.raised = "Exception"
    /\ req[served[1].r].status = 200
    /\ req[served[2].r].self.raised = ""
    /\ req[served[2].r].status = 200

\* the registry after handling the payloads one after another, in this order
RECURSIVE Replay(_)
Replay(done) ==
    IF done = <<>> THEN EmptyDict
    ELSE LET last == done[Len(done)]
         IN  ingest(Replay(SubSeq(done, 1, Len(done) - 1)), last.p, last.client_host,
                    CHOOSE now \in Clock : TRUE).config

\* the gauge calls of the i-th payload when handled after the i - 1 before it
SerialCalls(done, i) ==
    ingest(Replay(SubSeq(done, 1, i - 1)), done[i].p, done[i].client_host,
           CHOOSE now \in Clock : TRUE).out.calls

InCriticalSection(r) == req[r].at \in {"parse", "gate"}

Quiescent == \A r \in Requests : req[r].at \in {"waiting", "body", "done"}

\* C6: with several requests in flight, at most one handler is between the
\* fetch-or-create of its entry and its gauge calls, and the loop runs it; an
\* entry is created once; whenever no handler is running the registry is what
\* handling the answered payloads one after another (in the order of the
\* responses) gives, and each answered request set the gauges it sets in that
\* sequential run.
C6_Serialized ==
    /\ Cardinality({r \in Requests : InCriticalSection(r)}) <= 1
    /\ \A r \in Requests : InCriticalSection(r) => running = r
    /\ \A d \in Devices : creations[d] = IF d \in DOMAIN global_config THEN 1 ELSE 0
    /\ Quiescent => global_config = Replay(served)
    /\ \A i \in 1..Len(served) : req[served[i].r].calls = SerialCalls(served, i)

\* two requests for d1 whose handlers were both started before either body was
\* read: one brought DeviceInfo, the other NetworkInfo and a demand
C6_Witness ==
    /\ Len(served) = 2
    /\ req[served[1].r].overlapped
    /\ served[1].p.DeviceMacId = "d1" /\ served[2].p.DeviceMacId = "d1"
    /\ served[1].p.DeviceInfo.present /\ served[2].p.NetworkInfo.present
    /\ BothFlags(global_config["d1"])
    /\ req[served[2].r].calls # <<>>

----------------------------------------------------------------------------
(* Vocabulary of the claims about the readings *)

\* the meter_mac_id label of a device's entry, None when there is none
MeterLabel(config, d) ==
    IF d \in DOMAIN config /\ "meter_mac_id" \in DOMAIN config[d].labels
    THEN config[d].labels["meter_mac_id"]
    ELSE None

\* the call returned a non-empty bundle
PassedGating == Responded /\ ~out.ml.empty

\* a MeterMacId that is there, not empty and not the all-zero sentinel
QualifyingMeter(p) == p.MeterMacId \notin {None, "", ZeroMeter}

\* C11: no entry has the all-zero sentinel as meter_mac_id; a payload that
\* passes gating with a non-empty MeterMacId other than the sentinel sets the
\* entry's meter_mac_id to it, overwriting an earlier one, and the gauges of
\* that payload already carry it; any other payload (gated out, failed, without
\* a qualifying MeterMacId) leaves meter_mac_id as it was.
C11_MeterLabel ==
    /\ \A d \in DOMAIN global_config : MeterLabel(global_config, d) # ZeroMeter
    /\ (PassedGating /\ QualifyingMeter(out.p)) =>
          /\ MeterLabel(global_config, out.dev) = out.p.MeterMacId
          /\ "meter_mac_id" \in DOMAIN out.ml.labels
          /\ out.ml.labels["meter_mac_id"] = out.p.MeterMacId
          /\ \A i \in 1..Len(out.calls) :
                 /\ "meter_mac_id" \in DOMAIN out.calls[i].labels
                 /\ out.calls[i].labels["meter_mac_id"] = out.p.MeterMacId
    /\ (Responded /\ ~(PassedGating /\ QualifyingMeter(out.p))) =>
          \A d \in DOMAIN global_config :
              MeterLabel(global_config, d) = MeterLabel(out.before, d)

\* a second meter identity replaces the first and is on the demand gauge
C11_Witness ==
    /\ PassedGating
    /\ MeterLabel(out.before, out.dev) = "0xm1"
    /\ out.p.MeterMacId = "0xm2"
    /\ MeterLabel(global_config, out.dev) = "0xm2"
    /\ Len(out.calls) = 1
    /\ out.calls[1].labels["meter_mac_id"] = "0xm2"

\* the four sub-fields of a demand section are there and hexadecimal
DemandFieldsValid(e) ==
    /\ e.present
    /\ IsHex(e.Demand) /\ IsHex(e.Multiplier) /\ IsHex(e.Divisor) /\ IsHex(e.TimeStamp)

\* the five sub-fields of a summation section are there and hexadecimal
SummationFieldsValid(e) ==
    /\ e.present
    /\ IsHex(e.SummationDelivered) /\ IsHex(e.SummationReceived)
    /\ IsHex(e.Multiplier) /\ IsHex(e.Divisor) /\ IsHex(e.TimeStamp)

\* a decoded multiplier or divisor, 0 read as 1
Effective(t) == IF convert_hex_to_int(t) = 0 THEN 1 ELSE convert_hex_to_int(t)

\* n / d > 1000 or n / d < -1000, for d # 0, by the signs of (n -+ 1000 d) d
Beyond1000(n, d) == (n - 1000 * d) * d > 0 \/ (n + 1000 * d) * d < 0

DemandBeyond(e) ==
    Beyond1000(convert_hex_to_int(e.Demand) * Effective(e.Multiplier), Effective(e.Divisor))

\* the call ended in the demand parser's range check
DemandRejected ==
    out.raised = "Exception" /\ out.called = <<"InstantaneousDemand">>

\* C12: a demand section with its four sub-fields fails in the range check, and
\* stores no instantaneous_demand value, exactly when demand * multiplier /
\* divisor (multiplier and divisor read as 1 when they decode to 0) is above
\* 1000 or below -1000; 1000 and -1000 themselves are stored; a summation
\* section with its five sub-fields is always stored, whatever its values.
C12_DemandBound ==
    /\ (Responded /\ out.called # <<>> /\ DemandFieldsValid(out.p.InstantaneousDemand)) =>
          LET e == out.p.InstantaneousDemand
          IN  /\ DemandRejected <=> DemandBeyond(e)
              /\ DemandBeyond(e) =>
                    ("instantaneous_demand" \notin DOMAIN out.metric /\ out.calls = <<>>)
              /\ ~DemandBeyond(e) => "instantaneous_demand" \in DOMAIN out.metric
    /\ (Responded /\ Len(out.called) >= 2 /\ SummationFieldsValid(FindSummation(out.p))) =>
          /\ out.raised # "Exception"
          /\ "current_summation" \in DOMAIN out.metric

\* a demand of exactly -1000 kWh is published
C12_Witness ==
    /\ PassedGating
    /\ DemandFieldsValid(out.p.InstantaneousDemand)
    /\ convert_hex_to_int(out.p.InstantaneousDemand.Demand) = 0 - 1000
    /\ \E i \in 1..Len(out.calls) :
          /\ out.calls[i].gauge = "instantaneous_demand"
          /\ out.calls[i].value.num = (0 - 1000) * out.calls[i].value.den

\* the payload with one sub-field of its demand section replaced
WithDemandField(p, field, text) ==
    [p EXCEPT !.InstantaneousDemand[field] = text]

\* the payload with one sub-field of the summation section the decoder selects replaced
WithSummationField(p, field, text) ==
    IF ElementTruth(p.CurrentSummationDelivered)
    THEN [p EXCEPT !.CurrentSummationDelivered[field] = text]
    ELSE [p EXCEPT !.CurrentSummation[field] = text]

\* what handling payload q in place of the payload of this call gives
Instead(q) ==
    ingest(out.before, q, CHOOSE h \in Hosts : TRUE, CHOOSE now \in Clock : TRUE).out

SameOutcome(r) ==
    /\ r.metric = out.metric
    /\ r.raised = out.raised
    /\ r.calls = out.calls

\* C13: a demand or summation section whose Multiplier (Divisor) decodes to 0
\* is converted as the same section with Multiplier (Divisor) 1 is, each field
\* on its own; no stored value has a zero denominator, and a zero multiplier
\* does not turn a non-zero reading into 0.
C13_ZeroAsOne ==
    (Responded /\ out.called # <<>>) =>
        /\ \A field \in {"Multiplier", "Divisor"} :
              /\ (/\ DemandFieldsValid(out.p.InstantaneousDemand)
                  /\ convert_hex_to_int(out.p.InstantaneousDemand[field]) = 0) =>
                     SameOutcome(Instead(WithDemandField(out.p, field, Hex8(1))))
              /\ (/\ SummationFieldsValid(FindSummation(out.p))
                  /\ convert_hex_to_int(FindSummation(out.p)[field]) = 0) =>
                     SameOutcome(Instead(WithSummationField(out.p, field, Hex8(1))))
        /\ "instantaneous_demand" \in DOMAIN out.metric =>
              LET v == out.metric["instantaneous_demand"].demand
              IN  /\ v.den # 0
                  /\ convert_hex_to_int(out.p.InstantaneousDemand.Demand) # 0 => v.num # 0
        /\ "current_summation" \in DOMAIN out.metric =>
              LET v == out.metric["current_summation"]
              IN  /\ v.summation_delivered.den # 0 /\ v.summation_received.den # 0
                  /\ convert_hex_to_int(FindSummation(out.p).SummationDelivered) # 0 =>
                        v.summation_delivered.num # 0

\* a demand of 5 with Multiplier 0 and Divisor 0 is published as 5 / 1, next
\* to a summation
C13_Witness ==
    /\ PassedGating
    /\ DemandFieldsValid(out.p.InstantaneousDemand)
    /\ convert_hex_to_int(out.p.InstantaneousDemand.Multiplier) = 0
    /\ convert_hex_to_int(out.p.InstantaneousDemand.Divisor) = 0
    /\ Len(out.calls) = 3
    /\ out.calls[3].gauge = "instantaneous_demand"
    /\ out.calls[3].value = [num |-> 5, den |-> 1]

\* the root has a timestamp attribute that is a non-zero decimal number,
\* possibly followed by the unit suffix
RootStamped(p) ==
    /\ p.wellformed
    /\ p.timestamp # NoElem
    /\ IsDec(rstrip_s(p.timestamp))
    /\ DecValue(rstrip_s(p.timestamp)) # 0

\* no section of the payload has a TimeStamp sub-field
NoSectionStamp(p) ==
    /\ ~p.InstantaneousDemand.present
    /\ p.CurrentSummationDelivered.TimeStamp = NoElem
    /\ p.CurrentSummation.TimeStamp = NoElem

\* C14 as stated: with a non-zero timestamp attribute on the root and no
\* section TimeStamp, the resolved timestamp is the attribute's integer value
\* plus 946684800.
C14_Original ==
    (Responded /\ out.raised = "" /\ RootStamped(out.p) /\ NoSectionStamp(out.p)) =>
        out.timestamp = utc2000_to_epoch(DecValue(rstrip_s(out.p.timestamp)))

\* C14 amended: with a non-zero timestamp attribute on the root and no
\* section TimeStamp, the resolved timestamp is the attribute's integer value
\* (unit suffix stripped) as it is, with no offset added; it is the timestamp
\* of the bundle when the payload passes gating.
C14_DocumentTimestamp ==
    (Responded /\ out.raised = "" /\ RootStamped(out.p) /\ NoSectionStamp(out.p)) =>
        /\ out.timestamp = DecValue(rstrip_s(out.p.timestamp))
        /\ ~out.ml.empty => out.ml.timestamp = DecValue(rstrip_s(out.p.timestamp))

\* the root says 1000000000s and the bundle's timestamp is 1000000000
C14_Witness ==
    /\ PassedGating
    /\ NoSectionStamp(out.p)
    /\ out.p.timestamp = <<1, 0, 0, 0, 0, 0, 0, 0, 0, 0, 10>>
    /\ out.ml.timestamp = 1000000000

\* a section TimeStamp as Unix epoch seconds
Stamp(t) == utc2000_to_epoch(HexValue(t))

\* the document-level timestamp: the root attribute, or the clock
DocumentStamp(p) ==
    IF RootStamped(p) THEN DecValue(rstrip_s(p.timestamp)) ELSE CHOOSE now \in Clock : TRUE

\* C16: the sections are parsed in the order InstantaneousDemand,
\* CurrentSummation, DeviceInfo, NetworkInfo; the resolved timestamp of a
\* payload processed without error is the TimeStamp (plus 946684800) of its
\* summation section when a summation section carries one, whether or not a
\* demand section is present too, else the TimeStamp of its demand section,
\* else the document-level value; it is the timestamp of the bundle.
C16_TimestampResolution ==
    (Responded /\ out.raised = "" /\ out.p.wellformed) =>
        /\ out.called = SectionOrder
        /\ out.timestamp =
              IF out.p.CurrentSummationDelivered.TimeStamp # NoElem
              THEN Stamp(out.p.CurrentSummationDelivered.TimeStamp)
              ELSE IF out.p.CurrentSummation.TimeStamp # NoElem
              THEN Stamp(out.p.CurrentSummation.TimeStamp)
              ELSE IF out.p.InstantaneousDemand.present
              THEN Stamp(out.p.InstantaneousDemand.TimeStamp)
              ELSE DocumentStamp(out.p)
        /\ ~out.ml.empty => out.ml.timestamp = out.timestamp

\* a root timestamp, a demand stamped 768 and a summation stamped 512: the
\* bundle has the summation's
C16_Witness ==
    /\ PassedGating
    /\ RootStamped(out.p)
    /\ out.p.InstantaneousDemand = DemandLate
    /\ out.p.CurrentSummation = SummationOk
    /\ ~out.p.CurrentSummationDelivered.present
    /\ out.ml.timestamp = 946684800 + 512

----------------------------------------------------------------------------
(* Vocabulary of the claims about the registry entries *)

\* the sub-field of DeviceInfo that a label is copied from
FieldOfLabel ==
    [k \in {"fw_version", "hw_version", "manufacturer", "model_id"} |->
        CASE k = "fw_version" -> "FWVersion"
          [] k = "hw_version" -> "HWVersion"
          [] k = "manufacturer" -> "Manufacturer"
          [] k = "model_id" -> "ModelId"]

\* the DeviceInfo section carries the sub-field of label k and no other
CarriesOnly(e, k) ==
    /\ e.present
    /\ \A j \in DOMAIN FieldOfLabel : (e[FieldOfLabel[j]] # None) <=> (j = k)

\* C15: when a device's entry has a label value that an earlier DeviceInfo
\* section set, and a payload whose DeviceInfo carries only another label
\* field is processed without error, the entry has both values afterwards.
C15_BothLabelsLand ==
    \A k, j \in DOMAIN FieldOfLabel :
        (/\ Responded /\ Attributed /\ out.raised = ""
         /\ j # k
         /\ out.before[out.dev].state.device_info_received
         /\ out.before[out.dev].labels[j] # None
         /\ CarriesOnly(out.p.DeviceInfo, k)) =>
            /\ global_config[out.dev].labels[k] = out.p.DeviceInfo[FieldOfLabel[k]]
            /\ global_config[out.dev].labels[j] = out.before[out.dev].labels[j]

DeviceInfoKeys == DOMAIN FieldOfLabel

\* the entry as the constructor makes it for a device, from some client address
IsFreshEntry(entry, d) ==
    /\ ~entry.state.device_info_received /\ ~entry.state.network_info_received
    /\ entry.labels["device_mac_id"] = d
    /\ entry.labels["client_host"] \in Hosts
    /\ \A k \in DOMAIN entry.labels \ {"device_mac_id", "client_host"} :
          /\ d \in DOMAIN prom_opt_labels
          /\ k \in DOMAIN prom_opt_labels[d]
          /\ entry.labels[k] = prom_opt_labels[d][k]
    /\ d \in DOMAIN prom_opt_labels => DOMAIN prom_opt_labels[d] \subseteq DOMAIN entry.labels

\* C17: an entry is created in a call exactly when the payload names a device
\* that has no entry, as the fresh entry of that device; an entry that exists
\* stays, and a later call finds it as it is: the constructor changes nothing
\* of it, the call resets no flag, and the call changes no label other than
\* the four DeviceInfo labels (to what the payload's DeviceInfo says, never
\* back to an override) and meter_mac_id, so not client_host either.
C17_InitializedOnce ==
    [][IngestStep =>
          /\ out'.created <=>
                (/\ out'.p.wellformed /\ ~NoIdentity(out'.p)
                 /\ out'.p.DeviceMacId \notin DOMAIN global_config)
          /\ out'.created =>
                /\ DOMAIN out'.before = DOMAIN global_config \cup {out'.p.DeviceMacId}
                /\ IsFreshEntry(out'.before[out'.p.DeviceMacId], out'.p.DeviceMacId)
          /\ \A d \in DOMAIN global_config :
                /\ d \in DOMAIN global_config'
                /\ out'.before[d] = global_config[d]
                /\ \A f \in FlagNames :
                      global_config[d].state[f] => global_config'[d].state[f]
                /\ \A k \in DOMAIN global_config[d].labels :
                      /\ k \in DOMAIN global_config'[d].labels
                      /\ k \notin DeviceInfoKeys \cup {"meter_mac_id"} =>
                            global_config'[d].labels[k] = global_config[d].labels[k]
                      /\ k \in DeviceInfoKeys =>
                            global_config'[d].labels[k] \in
                                {global_config[d].labels[k],
                                 out'.p.DeviceInfo[FieldOfLabel[k]]}]_vars

\* a later payload for d1, whose model_id override a DeviceInfo has already
\* replaced, and whose flags are set: nothing is initialized again
C17_Witness ==
    /\ Responded /\ Attributed /\ ~out.created
    /\ out.dev = "d1"
    /\ BothFlags(out.before["d1"])
    /\ out.before["d1"].labels["model_id"] # prom_opt_labels["d1"]["model_id"]
    /\ global_config["d1"] = out.before["d1"]
    /\ "d2" \in DOMAIN global_config
    /\ global_config["d2"].labels["client_host"] # global_config["d1"].labels["client_host"]

\* what decoding the summation section e gives
DecodedSummation(e) ==
    [summation_delivered |->
         [num |-> convert_hex_to_int(e.SummationDelivered) * Effective(e.Multiplier),
          den |-> Effective(e.Divisor)],
     summation_received |->
         [num |-> convert_hex_to_int(e.SummationReceived) * Effective(e.Multiplier),
          den |-> Effective(e.Divisor)]]

\* what decoding the demand section e gives
DecodedDemand(e) ==
    [num |-> convert_hex_to_int(e.Demand) * Effective(e.Multiplier),
     den |-> Effective(e.Divisor)]

\* C18: when the payload has a CurrentSummationDelivered element, that element
\* is the one decoded: with its five sub-fields its values are the stored ones,
\* without them the call fails in the summation parser; CurrentSummation is
\* decoded only when there is no CurrentSummationDelivered element.
C18_FirstPresentWins ==
    (Responded /\ Len(out.called) >= 2 /\ out.p.CurrentSummationDelivered.present) =>
        LET e == out.p.CurrentSummationDelivered
        IN  IF SummationFieldsValid(e)
            THEN /\ "current_summation" \in DOMAIN out.metric
                 /\ out.metric["current_summation"] = DecodedSummation(e)
            ELSE /\ out.raised \in {"AttributeError", "ValueError"}
                 /\ out.called = SubSeq(SectionOrder, 1, 2)
                 /\ "current_summation" \notin DOMAIN out.metric

\* the payload of the i-th response carries a demand that is not out of range
ServedDemand(i) == served[i].p.InstantaneousDemand = DemandOk

\* C19: every gauge call of a request has the value decoded from that request's
\* own payload, each gauge at most once, and the readings a parser instance
\* holds are those of sections of its own payload; so a reading that was
\* withheld, or decoded before a failure, is set by no later request.
C19_NoBuffering ==
    \A r \in Requests :
        LET p == req[r].p
            calls == req[r].calls
        IN  /\ \A i \in 1..Len(calls) :
                  /\ calls[i].gauge = "instantaneous_demand" =>
                        /\ DemandFieldsValid(p.InstantaneousDemand)
                        /\ calls[i].value = DecodedDemand(p.InstantaneousDemand)
                  /\ calls[i].gauge = "summation_delivered" =>
                        /\ SummationFieldsValid(FindSummation(p))
                        /\ calls[i].value = DecodedSummation(FindSummation(p)).summation_delivered
                  /\ calls[i].gauge = "summation_received" =>
                        /\ SummationFieldsValid(FindSummation(p))
                        /\ calls[i].value = DecodedSummation(FindSummation(p)).summation_received
                  /\ \A j \in 1..Len(calls) : calls[j].gauge = calls[i].gauge => j = i
            /\ "instantaneous_demand" \in DOMAIN req[r].self.metric =>
                  p.InstantaneousDemand.present
            /\ "current_summation" \in DOMAIN req[r].self.metric =>
                  FindSummation(p).present
            /\ "network_info" \in DOMAIN req[r].self.metric => p.NetworkInfo.present

\* a demand arrives before the gate is open and is withheld; the next payload
\* opens the gate, carries no reading and sets no gauge
C19_Witness ==
    /\ Len(served) = 2
    /\ ServedDemand(1)
    /\ req[served[1].r].self.raised = "" /\ req[served[1].r].calls = <<>>
    /\ ~served[2].p.InstantaneousDemand.present
    /\ req[served[2].r].self.raised = "" /\ req[served[2].r].calls = <<>>
    /\ BothFlags(global_config["d1"])

\* C20: an ingest call changes no entry but the one of the device its payload
\* names, adds no entry but that one, and labels its gauge calls with that
\* device.
C20_Isolation ==
    [][IngestStep =>
          /\ DOMAIN global_config' \subseteq DOMAIN global_config \cup {out'.p.DeviceMacId}
          /\ \A d \in DOMAIN global_config :
                d # out'.p.DeviceMacId =>
                    (d \in DOMAIN global_config' /\ global_config'[d] = global_config[d])
          /\ \A i \in 1..Len(out'.calls) :
                out'.calls[i].labels["device_mac_id"] = out'.p.DeviceMacId]_vars

\* d2 brings DeviceInfo and NetworkInfo and opens its gate while the gate of
\* d1, registered with neither, stays shut
C20_Witness ==
    /\ Responded /\ out.dev = "d2"
    /\ out.p.DeviceInfo.present /\ out.p.NetworkInfo.present
    /\ BothFlags(global_config["d2"])
    /\ out.calls # <<>>
    /\ "d1" \in DOMAIN global_config
    /\ ~global_config["d1"].state.device_info_received
    /\ ~global_config["d1"].state.network_info_received

====
